---- MODULE Spec2Model ----
(***************************************************************************)
(* Model of the MQTT message classifier of desmo (src/parser/mod.rs) and   *)
(* of the record types it builds (src/db/mod.rs).                          *)
(*                                                                         *)
(* Representation                                                          *)
(*   str / String     a TLA+ string of ASCII characters                    *)
(*   payload: &[u8]   [ascii |-> str, tail |-> sequence of bytes >= 128]:  *)
(*                    the bytes of `ascii` followed by the bytes of `tail` *)
(*   i64              four 16-bit limbs, least significant first, in       *)
(*                    two's complement                                     *)
(*   i32              an integer in -2^31 .. 2^31-1                        *)
(*   Option<T>        [some |-> FALSE] or [some |-> TRUE, v |-> value]     *)
(*   DateTime<Utc>    the i64 count of clock units since the epoch         *)
(*   serde_json Value a record tagged by field t                           *)
(***************************************************************************)
EXTENDS Integers, Sequences, FiniteSets, TLC

None == [some |-> FALSE]
Some(x) == [some |-> TRUE, v |-> x]

\* `let x = v; In(x)`: the value is computed once and named
let(v, In(_)) == In(v)

(***************************************************************************)
(* str: the operations of core::str the parser calls.  Ascii lists the     *)
(* printable characters in byte order (the grave accent, which a TLA+      *)
(* string cannot hold, is left out).                                       *)
(***************************************************************************)
Ascii == " !\"#$%&'()*+,-./0123456789:;<=>?@ABCDEFGHIJKLMNOPQRSTUVWXYZ[\\]^_abcdefghijklmnopqrstuvwxyz{|}~"
UpperCase == "ABCDEFGHIJKLMNOPQRSTUVWXYZ"
LowerCase == "abcdefghijklmnopqrstuvwxyz"
DecDigits == "0123456789"

At(s, i) == IF i >= 1 /\ i <= Len(s) THEN SubSeq(s, i, i) ELSE ""

IndexIn(alphabet, c) ==
  IF \E i \in 1..Len(alphabet) : SubSeq(alphabet, i, i) = c
    THEN CHOOSE i \in 1..Len(alphabet) : SubSeq(alphabet, i, i) = c
    ELSE 0

IsDigit(c) == IndexIn(DecDigits, c) > 0
DigitVal(c) == IndexIn(DecDigits, c) - 1

LowerChar(c) ==
  LET i == IndexIn(UpperCase, c)
  IN  IF i > 0 THEN SubSeq(LowerCase, i, i) ELSE c

\* character by character, computed on the two halves of the text
RECURSIVE to_lowercase(_)
to_lowercase(s) ==
  IF Len(s) = 0 THEN ""
  ELSE IF Len(s) = 1 THEN LowerChar(s)
  ELSE to_lowercase(SubSeq(s, 1, Len(s) \div 2))
       \o to_lowercase(SubSeq(s, Len(s) \div 2 + 1, Len(s)))

contains(s, pat) ==
  \E i \in 1..(Len(s) - Len(pat) + 1) : SubSeq(s, i, i + Len(pat) - 1) = pat

starts_with(s, prefix) ==
  Len(s) >= Len(prefix) /\ SubSeq(s, 1, Len(prefix)) = prefix

Min(S) == CHOOSE x \in S : \A y \in S : x <= y

\* the first position from p on whose character is in cs (not in cs when
\* ~member), or Len(s) + 1 when there is none
Find(s, p, cs, member) ==
  Min({i \in p..Len(s) : (SubSeq(s, i, i) \in cs) = member} \cup {Len(s) + 1})

RECURSIVE SplitFrom(_, _, _)
SplitFrom(s, sep, start) ==
  LET i == Find(s, start, {sep}, TRUE)
  IN  IF i > Len(s) THEN << SubSeq(s, start, Len(s)) >>
      ELSE << SubSeq(s, start, i - 1) >> \o SplitFrom(s, sep, i + 1)

split(s, sep) == SplitFrom(s, sep, 1)

\* byte-wise order of two strings, the order of BTreeMap<String, Value>
StrLess(a, b) ==
  LET n == IF Len(a) < Len(b) THEN Len(a) ELSE Len(b)
      d == Min({i \in 1..n : SubSeq(a, i, i) # SubSeq(b, i, i)} \cup {n + 1})
  IN  IF d > n THEN Len(a) < Len(b)
      ELSE IndexIn(Ascii, SubSeq(a, d, d)) < IndexIn(Ascii, SubSeq(b, d, d))

RECURSIVE SortedKeys(_)
SortedKeys(ks) ==
  IF ks = {} THEN << >>
  ELSE LET k == CHOOSE x \in ks : \A y \in ks \ {x} : StrLess(x, y)
       IN  << k >> \o SortedKeys(ks \ {k})

(***************************************************************************)
(* String::from_utf8: the well-formed byte sequences of UTF-8.             *)
(***************************************************************************)
Cont(b) == b >= 128 /\ b <= 191

RECURSIVE WellFormedUtf8(_)
WellFormedUtf8(bs) ==
  LET n == Len(bs)
      b1 == bs[1]
      Rest(k) == WellFormedUtf8(SubSeq(bs, k + 1, n))
  IN  IF n = 0 THEN TRUE
      ELSE IF b1 <= 127 THEN Rest(1)
      ELSE IF b1 >= 194 /\ b1 <= 223
        THEN n >= 2 /\ Cont(bs[2]) /\ Rest(2)
      ELSE IF b1 = 224
        THEN n >= 3 /\ bs[2] >= 160 /\ bs[2] <= 191 /\ Cont(bs[3]) /\ Rest(3)
      ELSE IF b1 = 237
        THEN n >= 3 /\ bs[2] >= 128 /\ bs[2] <= 159 /\ Cont(bs[3]) /\ Rest(3)
      ELSE IF b1 >= 225 /\ b1 <= 239
        THEN n >= 3 /\ Cont(bs[2]) /\ Cont(bs[3]) /\ Rest(3)
      ELSE IF b1 = 240
        THEN n >= 4 /\ bs[2] >= 144 /\ bs[2] <= 191 /\ Cont(bs[3])
             /\ Cont(bs[4]) /\ Rest(4)
      ELSE IF b1 >= 241 /\ b1 <= 243
        THEN n >= 4 /\ Cont(bs[2]) /\ Cont(bs[3]) /\ Cont(bs[4]) /\ Rest(4)
      ELSE IF b1 = 244
        THEN n >= 4 /\ bs[2] >= 128 /\ bs[2] <= 143 /\ Cont(bs[3])
             /\ Cont(bs[4]) /\ Rest(4)
      ELSE FALSE

\* a variant that decodes every byte string, as String::from_utf8_lossy
from_utf8_lossy(payload) == Some(payload)

\* Ok(String) keeps the bytes of the payload; Err is None
from_utf8(payload) ==
  IF WellFormedUtf8(payload.tail) THEN Some(payload) ELSE None

(***************************************************************************)
(* 64-bit integers as four 16-bit limbs, least significant limb first.     *)
(***************************************************************************)
ZeroLimbs == << 0, 0, 0, 0 >>

\* m * k + d on the unsigned value, for k and d up to 10000; ovf when the
\* result leaves 64 bits
MulAdd(m, k, d) ==
  LET c1 == m[1] * k + d
      c2 == m[2] * k + (c1 \div 65536)
      c3 == m[3] * k + (c2 \div 65536)
      c4 == m[4] * k + (c3 \div 65536)
  IN  [v   |-> << c1 % 65536, c2 % 65536, c3 % 65536, c4 % 65536 >>,
       ovf |-> (c4 \div 65536) > 0]

\* two's complement negation
NegLimbs(m) ==
  LET n1 == (65535 - m[1]) + 1
      n2 == (65535 - m[2]) + (n1 \div 65536)
      n3 == (65535 - m[3]) + (n2 \div 65536)
      n4 == (65535 - m[4]) + (n3 \div 65536)
  IN  << n1 % 65536, n2 % 65536, n3 % 65536, n4 % 65536 >>

\* a < b as signed 64-bit values
LessI64(a, b) ==
  LET Key(m) == << (m[4] + 32768) % 65536, m[3], m[2], m[1] >>
      ka == Key(a)
      kb == Key(b)
  IN  \E i \in 1..4 : ka[i] < kb[i] /\ \A j \in 1..(i - 1) : ka[j] = kb[j]

\* the i64 of an integer of the model, |n| < 2^31
ToI64(n) ==
  LET a == IF n < 0 THEN 0 - n ELSE n
      m == << a % 65536, a \div 65536, 0, 0 >>
  IN  IF n < 0 THEN NegLimbs(m) ELSE m

\* `v as i32`: the low 32 bits, read as a signed value
AsI32(m) ==
  IF m[2] >= 32768 THEN (m[2] - 65536) * 65536 + m[1]
  ELSE m[2] * 65536 + m[1]

\* `v as i64` of an i32: sign extension
I64FromI32(n) ==
  LET lo == n % 65536
      hi == ((n - lo) \div 65536) % 65536
  IN  IF n < 0 THEN << lo, hi, 65535, 65535 >> ELSE << lo, hi, 0, 0 >>

(***************************************************************************)
(* serde_json::Value and serde_json::from_str.                             *)
(*                                                                         *)
(* A Number is PosInt(u64), NegInt(i64) or Float(f64), as in serde_json;   *)
(* lim holds the integer's limbs and f the decimal value                   *)
(* (-1)^neg * mant * 10^e, mant without leading or trailing zeros.  The    *)
(* rounding of a decimal to the nearest f64 is not modelled.  The parser   *)
(* covers the JSON grammar except the \b and \u escapes and numbers        *)
(* beyond the range of f64; no payload of the model uses them.  A Map is   *)
(* a function from its keys, iterated in key order.                        *)
(***************************************************************************)
JNull == [t |-> "null"]
JBool(b) == [t |-> "bool", b |-> b]
JNum(n) == [t |-> "num", n |-> n]
JStr(s) == [t |-> "str", s |-> s]
JArr(a) == [t |-> "arr", a |-> a]
JObj(m) == [t |-> "obj", m |-> m]

Fail == [ok |-> FALSE]
Ok(v, p) == [ok |-> TRUE, v |-> v, p |-> p]

Max(S) == CHOOSE x \in S : \A y \in S : x >= y

StripLeadingZeros(ds) == SubSeq(ds, Find(ds, 1, {"0"}, FALSE), Len(ds))

StripTrailingZeros(ds) ==
  SubSeq(ds, 1, Max({i \in 1..Len(ds) : SubSeq(ds, i, i) # "0"} \cup {0}))

\* the decimal value of the digits ds scaled by 10^e
MakeF64(neg, ds, e) ==
  LET a == StripLeadingZeros(ds)
      b == StripTrailingZeros(a)
  IN  IF b = "" THEN [neg |-> neg, mant |-> "", e |-> 0]
      ELSE [neg |-> neg, mant |-> b, e |-> e + (Len(a) - Len(b))]

\* the value of at most four digits
Nat4(ds) ==
  LET n == Len(ds)
      D(i) == IF i >= 1 THEN DigitVal(SubSeq(ds, i, i)) ELSE 0
  IN  D(n) + 10 * D(n - 1) + 100 * D(n - 2) + 1000 * D(n - 3)

\* the unsigned 64-bit value of a run of digits, taken four digits at a
\* time; ovf when it does not fit
RECURSIVE Magnitude(_)
Magnitude(ds) ==
  IF Len(ds) <= 4 THEN [v |-> << Nat4(ds), 0, 0, 0 >>, ovf |-> FALSE]
  ELSE LET hi == Magnitude(SubSeq(ds, 1, Len(ds) - 4))
           r == MulAdd(hi.v, 10000, Nat4(SubSeq(ds, Len(ds) - 3, Len(ds))))
       IN  [v |-> r.v, ovf |-> hi.ovf \/ r.ovf]

\* the value of the digits of an exponent, saturated
DigitsToNat(ds) ==
  IF Len(StripLeadingZeros(ds)) > 4 THEN 10000
  ELSE Nat4(StripLeadingZeros(ds))

MakeNumber(neg, ip, fp, floatSyntax, ex) ==
  let(Magnitude(ip), LAMBDA mag :
    LET beyond == mag.v[4] > 32768
                  \/ (mag.v[4] = 32768
                      /\ << mag.v[1], mag.v[2], mag.v[3] >> # << 0, 0, 0 >>)
        k == IF floatSyntax \/ mag.ovf THEN "Float"
             ELSE IF ~neg THEN "PosInt"
             ELSE IF mag.v = ZeroLimbs \/ beyond THEN "Float"
             ELSE "NegInt"
    IN  [k   |-> k,
         lim |-> IF k = "PosInt" THEN mag.v
                 ELSE IF k = "NegInt" THEN NegLimbs(mag.v)
                 ELSE ZeroLimbs,
         f   |-> MakeF64(neg, ip \o fp, ex - Len(fp))])

\* the position after the white space that starts at p
SkipWs(s, p) == Find(s, p, {" ", "\n", "\t", "\r"}, FALSE)

\* the position after the digits that start at p
ScanDigits(s, p) ==
  Find(s, p, {"0", "1", "2", "3", "4", "5", "6", "7", "8", "9"}, FALSE)

\* p0..p1-1 holds the integer part, p1+1..p2-1 the fraction, ps..p3-1 the
\* digits of the exponent
ParseNumber(s, p) ==
  LET neg == At(s, p) = "-"
      p0 == IF neg THEN p + 1 ELSE p
      c0 == At(s, p0)
  IN
  let(IF c0 = "0" THEN p0 + 1 ELSE ScanDigits(s, p0), LAMBDA p1 :
  let(IF At(s, p1) = "." THEN ScanDigits(s, p1 + 1) ELSE p1, LAMBDA p2 :
  let(IF At(s, p2 + 1) \in {"+", "-"} THEN p2 + 2 ELSE p2 + 1, LAMBDA ps :
  let(IF At(s, p2) \in {"e", "E"} THEN ScanDigits(s, ps) ELSE p2, LAMBDA p3 :
    LET hasFrac == At(s, p1) = "."
        hasExp == At(s, p2) \in {"e", "E"}
        ex == IF ~hasExp THEN 0
              ELSE IF At(s, p2 + 1) = "-"
                THEN 0 - DigitsToNat(SubSeq(s, ps, p3 - 1))
                ELSE DigitsToNat(SubSeq(s, ps, p3 - 1))
    IN  IF ~IsDigit(c0) THEN Fail
        ELSE IF c0 = "0" /\ IsDigit(At(s, p0 + 1)) THEN Fail
        ELSE IF hasFrac /\ p2 = p1 + 1 THEN Fail
        ELSE IF hasExp /\ p3 = ps THEN Fail
        ELSE Ok(JNum(MakeNumber(neg, SubSeq(s, p0, p1 - 1),
                                IF hasFrac THEN SubSeq(s, p1 + 1, p2 - 1)
                                ELSE "",
                                hasFrac \/ hasExp, ex)), p3)))))

\* the character an escape \e stands for, "" when e is no escape
Unescape(e) ==
  IF e \in {"\"", "\\", "/"} THEN e
  ELSE IF e = "n" THEN "\n"
  ELSE IF e = "t" THEN "\t"
  ELSE IF e = "r" THEN "\r"
  ELSE IF e = "f" THEN "\f"
  ELSE ""

\* position i of s, at or after p, starts an escape: it holds a backslash
\* that an even number of backslashes precedes
EscapeAt(s, p, i) ==
  /\ i >= p
  /\ At(s, i) = "\\"
  /\ (i - 1 - Max({j \in p..(i - 1) : SubSeq(s, j, j) # "\\"} \cup {p - 1}))
       % 2 = 0

\* the characters that positions lo..hi of a string body stand for
RECURSIVE Unescaped(_, _, _, _)
Unescaped(s, p, lo, hi) ==
  IF lo > hi THEN ""
  ELSE IF lo = hi
    THEN IF EscapeAt(s, p, lo) THEN ""
         ELSE IF EscapeAt(s, p, lo - 1) THEN Unescape(At(s, lo))
         ELSE At(s, lo)
  ELSE Unescaped(s, p, lo, (lo + hi) \div 2)
       \o Unescaped(s, p, (lo + hi) \div 2 + 1, hi)

\* p is the position after the opening quote; the body ends at the first
\* quote that no escape covers
ParseStrBody(s, p) ==
  LET q == Min({i \in p..Len(s) :
                  At(s, i) = "\"" /\ ~EscapeAt(s, p, i - 1)} \cup {Len(s) + 1})
      bad == \E i \in p..(q - 1) :
               \/ At(s, i) \in {"\n", "\t", "\r", "\f"}
               \/ EscapeAt(s, p, i) /\ Unescape(At(s, i + 1)) = ""
  IN  IF q > Len(s) \/ bad THEN Fail
      ELSE Ok(Unescaped(s, p, p, q - 1), q + 1)

Literal(s, p, word, v) ==
  IF p + Len(word) - 1 <= Len(s) /\ SubSeq(s, p, p + Len(word) - 1) = word
    THEN Ok(v, p + Len(word))
    ELSE Fail

RECURSIVE ParseValue(_, _)
RECURSIVE ParseElements(_, _, _)
RECURSIVE ParseMembers(_, _, _)

\* p is the position of the next element; acc the elements read so far
ParseElements(s, p, acc) ==
  let(ParseValue(s, p), LAMBDA r :
    IF ~r.ok THEN Fail
    ELSE let(SkipWs(s, r.p), LAMBDA q :
      IF At(s, q) = "," THEN ParseElements(s, q + 1, Append(acc, r.v))
      ELSE IF At(s, q) = "]" THEN Ok(JArr(Append(acc, r.v)), q + 1)
      ELSE Fail))

\* p is the position of the next key; a later duplicate key replaces
ParseMembers(s, p, acc) ==
  let(SkipWs(s, p), LAMBDA pk :
    IF At(s, pk) # "\"" THEN Fail
    ELSE let(ParseStrBody(s, pk + 1), LAMBDA k :
      IF ~k.ok THEN Fail
      ELSE let(SkipWs(s, k.p), LAMBDA pc :
        IF At(s, pc) # ":" THEN Fail
        ELSE let(ParseValue(s, pc + 1), LAMBDA r :
          IF ~r.ok THEN Fail
          ELSE let(SkipWs(s, r.p), LAMBDA q :
            IF At(s, q) = ","
              THEN ParseMembers(s, q + 1, (k.v :> r.v) @@ acc)
            ELSE IF At(s, q) = "}"
              THEN Ok(JObj((k.v :> r.v) @@ acc), q + 1)
            ELSE Fail)))))

ParseValue(s, p0) ==
  let(SkipWs(s, p0), LAMBDA p :
    LET c == At(s, p)
    IN  IF c = "n" THEN Literal(s, p, "null", JNull)
        ELSE IF c = "t" THEN Literal(s, p, "true", JBool(TRUE))
        ELSE IF c = "f" THEN Literal(s, p, "false", JBool(FALSE))
        ELSE IF c = "\""
          THEN let(ParseStrBody(s, p + 1), LAMBDA str :
                 IF str.ok THEN Ok(JStr(str.v), str.p) ELSE Fail)
        ELSE IF c = "["
          THEN let(SkipWs(s, p + 1), LAMBDA q :
                 IF At(s, q) = "]" THEN Ok(JArr(<< >>), q + 1)
                 ELSE ParseElements(s, p + 1, << >>))
        ELSE IF c = "{"
          THEN let(SkipWs(s, p + 1), LAMBDA q :
                 IF At(s, q) = "}" THEN Ok(JObj(<< >>), q + 1)
                 ELSE ParseMembers(s, p + 1, << >>))
        ELSE IF c = "-" \/ IsDigit(c) THEN ParseNumber(s, p)
        ELSE Fail)

\* serde_json::from_str::<Value>(text).ok() on ASCII text
from_str_ascii(s) ==
  let(ParseValue(s, 1), LAMBDA r :
    IF r.ok /\ SkipWs(s, r.p) > Len(s) THEN Some(r.v) ELSE None)

\* serde_json::from_str::<Value>(&payload_str).ok(): a text that ends in
\* characters outside ASCII is not a JSON text, whatever precedes them
from_str(text) ==
  IF Len(text.tail) > 0 THEN None ELSE from_str_ascii(text.ascii)

\* Value::get(&str)
get(json, key) ==
  IF json.t = "obj" /\ key \in DOMAIN json.m THEN Some(json.m[key]) ELSE None

or_else(o, alt) == IF o.some THEN o ELSE alt
and_then(o, F(_)) == IF o.some THEN F(o.v) ELSE None

as_str(v) == IF v.t = "str" THEN Some(v.s) ELSE None
as_array(v) == IF v.t = "arr" THEN Some(v.a) ELSE None
as_object(v) == IF v.t = "obj" THEN Some(v.m) ELSE None
as_f64(v) == IF v.t = "num" THEN Some(v.n.f) ELSE None
as_i64(v) ==
  IF v.t # "num" THEN None
  ELSE IF v.n.k = "NegInt" THEN Some(v.n.lim)
  ELSE IF v.n.k = "PosInt" /\ v.n.lim[4] < 32768 THEN Some(v.n.lim)
  ELSE None

(***************************************************************************)
(* chrono: Utc::now, DateTime::parse_from_rfc3339 and                      *)
(* DateTime::from_timestamp.  The clock unit is the second: fractions of   *)
(* a second in an RFC 3339 text are read and dropped.                      *)
(***************************************************************************)
\* Utc::now() when the clock shows tick c
DateTimeAt(c) == ToI64(1700000000 + c)

IsLeap(y) == (y % 4 = 0 /\ y % 100 # 0) \/ y % 400 = 0

DaysInMonth(y, m) ==
  IF m = 2 THEN (IF IsLeap(y) THEN 29 ELSE 28)
  ELSE IF m \in {4, 6, 9, 11} THEN 30 ELSE 31

\* days from 1970-01-01 to the civil date y-m-d
DaysFromCivil(y0, m, d) ==
  LET y == IF m <= 2 THEN y0 - 1 ELSE y0
      era == y \div 400
      yoe == y - era * 400
      doy == (153 * (IF m > 2 THEN m - 3 ELSE m + 9) + 2) \div 5 + d - 1
      doe == yoe * 365 + yoe \div 4 - yoe \div 100 + doy
  IN  era * 146097 + doe - 719468

\* days * 86400 + r as an i64, 0 <= r < 86400
SecondsI64(days, r) ==
  IF days >= 0
    THEN MulAdd(MulAdd(ToI64(days), 100, 0).v, 864, r).v
    ELSE NegLimbs(MulAdd(MulAdd(ToI64((0 - days) - 1), 100, 0).v,
                         864, 86400 - r).v)

TwoDigits(s, p) == DigitVal(At(s, p)) * 10 + DigitVal(At(s, p + 1))
AllDigits(s, p, q) == \A i \in p..q : IsDigit(At(s, i))

parse_from_rfc3339(s) ==
  LET y == TwoDigits(s, 1) * 100 + TwoDigits(s, 3)
      mo == TwoDigits(s, 6)
      d == TwoDigits(s, 9)
      h == TwoDigits(s, 12)
      mi == TwoDigits(s, 15)
      sec == TwoDigits(s, 18)
      pf == IF At(s, 20) = "." THEN ScanDigits(s, 21) ELSE 20
      z == At(s, pf)
      utc == z \in {"Z", "z"} /\ Len(s) = pf
      offset == /\ z \in {"+", "-"}
                /\ Len(s) = pf + 5
                /\ AllDigits(s, pf + 1, pf + 2)
                /\ At(s, pf + 3) = ":"
                /\ AllDigits(s, pf + 4, pf + 5)
                /\ TwoDigits(s, pf + 1) <= 23
                /\ TwoDigits(s, pf + 4) <= 59
      off == IF utc THEN 0
             ELSE (IF z = "-" THEN -1 ELSE 1)
                  * (TwoDigits(s, pf + 1) * 3600 + TwoDigits(s, pf + 4) * 60)
      r == h * 3600 + mi * 60 + (IF sec = 60 THEN 59 ELSE sec) - off
      shape == /\ Len(s) >= 20
               /\ AllDigits(s, 1, 4) /\ At(s, 5) = "-"
               /\ AllDigits(s, 6, 7) /\ At(s, 8) = "-"
               /\ AllDigits(s, 9, 10) /\ At(s, 11) \in {"T", "t"}
               /\ AllDigits(s, 12, 13) /\ At(s, 14) = ":"
               /\ AllDigits(s, 15, 16) /\ At(s, 17) = ":"
               /\ AllDigits(s, 18, 19)
               /\ (At(s, 20) = "." => pf > 21)
  IN  IF /\ shape
         /\ (utc \/ offset)
         /\ mo >= 1 /\ mo <= 12
         /\ d >= 1 /\ d <= DaysInMonth(y, mo)
         /\ h <= 23 /\ mi <= 59 /\ sec <= 60
        THEN Some(SecondsI64(DaysFromCivil(y, mo, d) + (r \div 86400),
                             r % 86400))
        ELSE None

\* the first and last second of the dates chrono can represent
MinTimestamp == << 40064, 29452, 63595, 65535 >>
MaxTimestamp == << 27519, 39434, 1911, 0 >>

\* DateTime::from_timestamp(secs, 0)
from_timestamp(secs) ==
  IF LessI64(secs, MinTimestamp) \/ LessI64(MaxTimestamp, secs)
    THEN None
    ELSE Some(secs)

(***************************************************************************)
(* src/parser/mod.rs.  Every function that reads the clock takes the       *)
(* reading as a parameter: clock_now is the DateTime that Utc::now()       *)
(* returns at that call.                                                   *)
(***************************************************************************)
\* a String that holds the ASCII text s
Str(s) == [ascii |-> s, tail |-> << >>]

\* text.to_lowercase(): the characters outside ASCII that follow have no
\* ASCII letter of the keywords as their lower case, and stay as they are
text_to_lowercase(text) ==
  [ascii |-> to_lowercase(text.ascii), tail |-> text.tail]

\* str::contains for an ASCII pattern
text_contains(text, pat) == contains(text.ascii, pat)

\* a variant that scans the segments of a topic of any length
extract_device_id_unguarded(topic, json) ==
  LET id == and_then(or_else(or_else(get(json, "device_id"),
                                     get(json, "deviceId")),
                             get(json, "device")), as_str)
      parts == split(topic, "/")
      hits == {i \in 1..Len(parts) :
                 starts_with(parts[i], "device") \/ Len(parts[i]) >= 8}
  IN  IF id.some THEN Some(id.v)
      ELSE IF hits # {} THEN Some(parts[Min(hits)])
      ELSE Some("unknown")

extract_device_id(topic, json) ==
  LET id == and_then(or_else(or_else(get(json, "device_id"),
                                     get(json, "deviceId")),
                             get(json, "device")), as_str)
      parts == split(topic, "/")
      hits == {i \in 1..Len(parts) :
                 starts_with(parts[i], "device") \/ Len(parts[i]) >= 8}
  IN  IF id.some THEN Some(id.v)
      ELSE IF Len(parts) >= 2 /\ hits # {} THEN Some(parts[Min(hits)])
      ELSE Some("unknown")

extract_timestamp(json, clock_now) ==
  let(or_else(get(json, "timestamp"), get(json, "ts")), LAMBDA ts :
  let(and_then(and_then(ts, as_str), parse_from_rfc3339), LAMBDA dt :
  let(and_then(and_then(ts, as_i64), from_timestamp), LAMBDA dn :
    IF dt.some THEN dt.v
    ELSE IF dn.some THEN dn.v
    ELSE clock_now)))

\* the i-th reading of the clock within one call of parse_message, for the
\* ticks clk the clock shows at the successive readings
ClockRead(clk, i) == DateTimeAt(clk[IF i <= Len(clk) THEN i ELSE Len(clk)])

\* the entries of a `sensors` array that have a string name and a number
RECURSIVE SensorEntries(_, _)
SensorEntries(topic, sensors) ==
  IF Len(sensors) = 0 THEN << >>
  ELSE LET sensor == Head(sensors)
           name == and_then(get(sensor, "name"), as_str)
           value == and_then(get(sensor, "value"), as_f64)
       IN  (IF name.some /\ value.some
              THEN << [topic |-> topic \o "/" \o name.v, value |-> value.v] >>
              ELSE << >>)
           \o SensorEntries(topic, Tail(sensors))

\* the numeric members of a flat object, in the order of the map
RECURSIVE FlatEntries(_, _, _)
FlatEntries(topic, obj, keys) ==
  IF Len(keys) = 0 THEN << >>
  ELSE LET key == Head(keys)
           num == as_f64(obj[key])
       IN  (IF num.some /\ key # "timestamp" /\ key # "device_id"
              THEN << [topic |-> topic \o "/" \o key, value |-> num.v] >>
              ELSE << >>)
           \o FlatEntries(topic, obj, Tail(keys))

\* a variant in which the flat object leaves out `value`, the member the
\* single reading has taken
SensorShapes_value_once(topic, json) ==
  LET value == and_then(get(json, "value"), as_f64)
      sensors == and_then(get(json, "sensors"), as_array)
      obj == as_object(json)
  IN  (IF value.some THEN << [topic |-> topic, value |-> value.v] >>
       ELSE << >>)
      \o (IF sensors.some THEN SensorEntries(topic, sensors.v) ELSE << >>)
      \o (IF obj.some
            THEN FlatEntries(topic, obj.v,
                             SortedKeys(DOMAIN obj.v \ {"value"}))
            ELSE << >>)

\* the topic and value of the readings, in the order they are pushed
SensorShapes(topic, json) ==
  LET value == and_then(get(json, "value"), as_f64)
      sensors == and_then(get(json, "sensors"), as_array)
      obj == as_object(json)
  IN  (IF value.some THEN << [topic |-> topic, value |-> value.v] >>
       ELSE << >>)
      \o (IF sensors.some THEN SensorEntries(topic, sensors.v) ELSE << >>)
      \o (IF obj.some
            THEN FlatEntries(topic, obj.v, SortedKeys(DOMAIN obj.v))
            ELSE << >>)

\* extract_timestamp is called once for each reading that is pushed: the
\* i-th reading takes the reading base + i of the clock
parse_sensor_readings(topic, json, clk, base) ==
  let(extract_device_id(topic, json), LAMBDA device_id :
  let(SensorShapes(topic, json), LAMBDA shapes :
    IF ~device_id.some THEN None
    ELSE IF Len(shapes) = 0 THEN None
    ELSE Some([i \in 1..Len(shapes) |->
                 [kind      |-> "SensorReading",
                  device_id |-> device_id.v,
                  topic     |-> shapes[i].topic,
                  value     |-> shapes[i].value,
                  timestamp |->
                    extract_timestamp(json, ClockRead(clk, base + i))]])))

parse_device_log(topic, json, clock_now) ==
  LET level == and_then(or_else(get(json, "level"), get(json, "severity")),
                        as_str)
      message == and_then(or_else(or_else(get(json, "message"),
                                          get(json, "msg")),
                                  get(json, "text")), as_str)
      device_id == extract_device_id(topic, json)
  IN  IF ~level.some THEN None
      ELSE IF ~message.some THEN None
      ELSE IF ~device_id.some THEN None
      ELSE Some([kind      |-> "DeviceLog",
                 device_id |-> device_id.v,
                 level     |-> level.v,
                 message   |-> Str(message.v),
                 topic     |-> topic,
                 timestamp |-> extract_timestamp(json, clock_now)])

PlainTextLevel(topic, text) ==
  IF contains(topic, "error")
     \/ text_contains(text_to_lowercase(text), "error") THEN "ERROR"
  ELSE IF contains(topic, "warn")
          \/ text_contains(text_to_lowercase(text), "warn") THEN "WARN"
  ELSE IF contains(topic, "debug") \/ contains(topic, "diagnostics")
    THEN "DEBUG"
  ELSE "INFO"

parse_plain_text_log(topic, text, clock_now) ==
  LET parts == split(topic, "/")
      hits == {i \in 1..Len(parts) :
                 /\ Len(parts[i]) > 0
                 /\ parts[i] # "diagnostics"
                 /\ parts[i] # "debug"
                 /\ parts[i] # "logs"}
      device_id == IF hits # {} THEN parts[Min(hits)] ELSE "unknown"
  IN  Some([kind      |-> "DeviceLog",
            device_id |-> device_id,
            level     |-> PlainTextLevel(topic, text),
            message   |-> text,
            topic     |-> topic,
            timestamp |-> clock_now])

\* .and_then(|v| v.as_i64()).map(|v| v as i32)
as_i32(v) == LET n == as_i64(v) IN IF n.some THEN Some(AsI32(n.v)) ELSE None

\* a variant that does not look for `alerts`
has_state_fields_no_alerts(json) ==
  \/ get(json, "main_state").some
  \/ get(json, "secondary_state").some
  \/ get(json, "rssi").some

has_state_fields(json) ==
  \/ get(json, "main_state").some
  \/ get(json, "secondary_state").some
  \/ get(json, "alerts").some
  \/ get(json, "rssi").some

\* the closure at `json.get("health").and_then(..)`
device_health(topic, device_id, timestamp, health_value) ==
  let(as_str(health_value), LAMBDA health_str :
  let(IF health_str.some THEN from_str_ascii(health_str.v)
      ELSE Some(health_value), LAMBDA health_json :
  let(and_then(health_json, LAMBDA h : get(h, "general")), LAMBDA general :
    LET G(key, F(_)) == and_then(get(general.v, key), F)
    IN
      IF ~health_json.some THEN None
      ELSE IF ~general.some THEN None
      ELSE Some([kind                     |-> "DeviceHealth",
                 device_id                |-> device_id,
                 topic                    |-> topic,
                 wifi_ssid                |-> G("wifiSsid", as_str),
                 free_heap_size           |-> G("freeHeapSize", as_i64),
                 min_heap_size            |-> G("minHeapSize", as_i64),
                 unexpected_reset_counter |->
                   G("unexpectedResetCounter", as_i32),
                 last_reset_reason        |-> G("lastResetReason", as_str),
                 wifi_connect_counter     |-> G("wifiConnectCounter", as_i32),
                 cloud_connect_counter    |->
                   G("cloudConnectCounter", as_i32),
                 last_wifi_connection_ts  |->
                   G("lastWifiConnectionTs", as_i64),
                 last_cloud_connection_ts |->
                   G("lastCloudConnectionTs", as_i64),
                 timestamp                |-> timestamp]))))

\* a variant in which a health field that yields no record ends the
\* function with None, as `?` does outside the closure
parse_device_state_and_health_strict(topic, json, clock_now) ==
  let(extract_device_id(topic, json), LAMBDA device_id :
  let(extract_timestamp(json, clock_now), LAMBDA timestamp :
    LET device_state ==
          [kind            |-> "DeviceState",
           device_id       |-> device_id.v,
           topic           |-> topic,
           main_state      |-> and_then(get(json, "main_state"), as_i32),
           secondary_state |-> and_then(get(json, "secondary_state"), as_i32),
           alerts          |-> get(json, "alerts"),
           rssi            |-> and_then(get(json, "rssi"), as_i32),
           timestamp       |-> timestamp]
    IN  IF ~has_state_fields(json) THEN None
        ELSE IF ~device_id.some THEN None
        ELSE let(and_then(get(json, "health"),
                          LAMBDA h : device_health(topic, device_id.v,
                                                   timestamp, h)),
                 LAMBDA health :
                   IF get(json, "health").some /\ ~health.some THEN None
                   ELSE Some([state |-> device_state, health |-> health]))))

parse_device_state_and_health(topic, json, clock_now) ==
  let(extract_device_id(topic, json), LAMBDA device_id :
  let(extract_timestamp(json, clock_now), LAMBDA timestamp :
    LET device_state ==
          [kind            |-> "DeviceState",
           device_id       |-> device_id.v,
           topic           |-> topic,
           main_state      |-> and_then(get(json, "main_state"), as_i32),
           secondary_state |-> and_then(get(json, "secondary_state"), as_i32),
           alerts          |-> get(json, "alerts"),
           rssi            |-> and_then(get(json, "rssi"), as_i32),
           timestamp       |-> timestamp]
    IN  IF ~has_state_fields(json) THEN None
        ELSE IF ~device_id.some THEN None
        ELSE Some([state  |-> device_state,
                   health |-> and_then(get(json, "health"),
                                       LAMBDA h :
                                         device_health(topic, device_id.v,
                                                       timestamp, h))])))

\* The clock is read once for the SocketRead and then once at each call of
\* extract_timestamp that falls back to it, or once by the plain-text log:
\* the n-th call of extract_timestamp takes reading 1 + n.
parse_message(topic, payload, clk) ==
  let(from_utf8(payload), LAMBDA decoded :
    IF ~decoded.some THEN << >>
    ELSE
    let(decoded.v, LAMBDA payload_str :
    let(from_str(payload_str), LAMBDA json :
      << [kind      |-> "SocketRead",
          topic     |-> topic,
          payload   |-> payload_str,
          timestamp |-> ClockRead(clk, 1)] >> \o
      (IF json.some
         THEN
           let(parse_device_state_and_health(topic, json.v,
                                             ClockRead(clk, 2)), LAMBDA sh :
             IF sh.some
               THEN << sh.v.state >> \o
                    (IF sh.v.health.some THEN << sh.v.health.v >> ELSE << >>)
               ELSE
                 let(parse_sensor_readings(topic, json.v, clk, 1),
                     LAMBDA readings :
                 let(IF readings.some THEN readings.v ELSE << >>,
                     LAMBDA pushed :
                 let(parse_device_log(topic, json.v,
                                      ClockRead(clk, 2 + Len(pushed))),
                     LAMBDA log :
                   pushed \o (IF log.some THEN << log.v >> ELSE << >>)))))
         ELSE
           let(parse_plain_text_log(topic, payload_str, ClockRead(clk, 2)),
               LAMBDA plain :
             IF plain.some THEN << plain.v >> ELSE << >>)))))

(***************************************************************************)
(* The messages the bus delivers.                                          *)
(***************************************************************************)
Topics ==
  { "t/dev00000001", "telemetry/device42/temp", "a/b", "device42", "status",
    "diagnostics/dev1/logs", "dev/ERROR/x", "x/Warn", "errors/d1", "warn/d",
    "", "logs/debug", "room/dev1", "a/b/devices/longsegment1" }

JsonPayloads ==
  { Str("{\"rssi\": -40, \"level\":\"INFO\",\"message\":\"hi\"}"),
    Str("{\"value\": 21.5, \"level\":\"INFO\",\"message\":\"hi\"}"),
    Str("{\"temperature\":25.5,\"humidity\":60.0,\"timestamp\":\"2024-01-01T00:00:00Z\"}"),
    Str("{\"rssi\":1,\"health\":\"{\\\"general\\\":{\\\"wifiSsid\\\":\\\"net\\\"}}\"}"),
    Str("{\"device_id\":\"A\",\"deviceId\":\"B\",\"level\":\"WARN\",\"msg\":\"m\"}"),
    Str("{\"timestamp\":\"2024-01-01T00:00:00Z\",\"ts\":1700000000,\"value\":1}"),
    Str("{\"main_state\":1,\"secondary_state\":0,\"alerts\":{},\"rssi\":-29,\"health\":\"{\\\"general\\\":{\\\"wifiSsid\\\":\\\"GL-S200-33f\\\",\\\"freeHeapSize\\\":57940,\\\"unexpectedResetCounter\\\":3}}\"}"),
    Str("{\"alerts\":null,\"value\":1.5,\"sensors\":[{\"name\":\"t\",\"value\":2}],\"level\":\"INFO\",\"message\":\"m\"}"),
    Str("{\"rssi\":1,\"health\":\"not json\"}"),
    Str("{\"rssi\":1,\"health\":{\"other\":1}}"),
    Str("{\"rssi\":1,\"health\":\"[1]\"}"),
    Str("{\"rssi\":1,\"health\":{\"general\":{\"wifiConnectCounter\":4294967297,\"cloudConnectCounter\":7}}}"),
    Str("{\"main_state\":2147483648}"),
    Str("{\"rssi\":-2147483649,\"secondary_state\":2147483647}"),
    Str("{\"main_state\":1.5,\"secondary_state\":\"x\",\"rssi\":9223372036854775808}"),
    Str("{\"health\":{\"general\":{}}}"),
    Str("{\"sensors\":[{\"name\":\"a\",\"value\":1},{\"name\":\"b\"},{\"name\":\"c\",\"value\":2}]}"),
    Str("{\"value\":3,\"ts\":1700000000}"),
    Str("{\"level\":\"\",\"message\":\"hi\"}"),
    Str("{\"severity\":\"WARN\",\"msg\":\"\"}"),
    Str("{\"level\":5,\"severity\":\"X\",\"message\":\"m\"}"),
    Str("{\"device_id\":7,\"deviceId\":\"B\",\"level\":\"E\",\"text\":\"m\"}"),
    Str("42"),
    Str("\"error\""),
    Str("[1,2]"),
    Str("null"),
    Str("{}"),
    Str("{\"value\":1,\"timestamp\":\"yesterday\"}"),
    Str("{\"x\":1,\"ts\":9223372036854775807}"),
    Str("{\"level\":\"INFO\",\"message\":\"hi\"}"),
    Str("{\"device\":\"dev-7\",\"rssi\":5,\"timestamp\":\"2024-01-01T00:00:00Z\",\"health\":{\"general\":{\"wifiSsid\":\"n\",\"unexpectedResetCounter\":2}}}"),
    Str("{\"value\":\"high\",\"level\":\"INFO\",\"message\":\"hi\"}"),
    Str("{\"value\":7,\"level\":\"DEBUG\",\"message\":\"\",\"device_id\":\"dev-9\"}") }

TextPayloads ==
  { Str("connection lost"),
    Str("Disk ERROR 5"),
    Str("Warning: hot"),
    Str(""),
    Str("{\"a\":1") }

\* texts with characters outside ASCII, and byte strings that are not UTF-8
BytePayloads ==
  { [ascii |-> "caf", tail |-> << 195, 169 >>],
    [ascii |-> "error ", tail |-> << 226, 130, 172 >>],
    [ascii |-> "abc", tail |-> << 255 >>],
    [ascii |-> "", tail |-> << 192, 128 >>],
    [ascii |-> "{\"rssi\":1}", tail |-> << 128 >>] }

Payloads == JsonPayloads \cup TextPayloads \cup BytePayloads

\* the last tick of the clock the model follows
MaxClock == 2
\* the readings of the clock within one call between which the model lets
\* the clock advance
MaxReads == 3

(***************************************************************************)
(* The classifier at work: the caller hands parse_message one message at   *)
(* a time and takes the records it returns; the clock runs on its own.     *)
(***************************************************************************)
\*   topic, payload  the arguments of the call of parse_message
\*   json            the local `json` of the call: the value the payload
\*                   text was parsed to, None where there is none
\*   results         the records the call returned
\*   now             the tick the clock shows
\*   pc              "done" when a call has returned, "idle" when the
\*                   caller has taken the records
VARIABLES topic, payload, json, results, now, pc

vars == << topic, payload, json, results, now, pc >>

Init ==
  /\ topic = ""
  /\ payload = Str("")
  /\ json = None
  /\ results = << >>
  /\ now = 0
  /\ pc = "idle"

\* one call of parse_message; adv holds the readings of the clock before
\* which the clock has advanced by a tick
ParseMessage(t, p) ==
  /\ pc = "idle"
  /\ \E adv \in SUBSET (2..MaxReads) :
       LET clk == [i \in 1..MaxReads |->
                     now + Cardinality({j \in adv : j <= i})]
       IN  /\ clk[MaxReads] <= MaxClock
           /\ results' = parse_message(t, p, clk)
           /\ now' = clk[MaxReads]
  /\ topic' = t
  /\ payload' = p
  /\ json' = and_then(from_utf8(p), from_str)
  /\ pc' = "done"

\* the caller takes the records and waits for the next message
Deliver ==
  /\ pc = "done"
  /\ pc' = "idle"
  /\ topic' = ""
  /\ payload' = Str("")
  /\ json' = None
  /\ results' = << >>
  /\ UNCHANGED now

\* the clock advances
Tick ==
  /\ now < MaxClock
  /\ now' = now + 1
  /\ UNCHANGED << topic, payload, json, results, pc >>

Next ==
  \/ \E t \in Topics, p \in Payloads : ParseMessage(t, p)
  \/ Deliver
  \/ Tick

Spec == Init /\ [][Next]_vars

(***************************************************************************)
(* What the claims speak of.                                               *)
(***************************************************************************)
\* parse_message has returned results for (topic, payload)
Done == pc = "done"

ValidUtf8 == WellFormedUtf8(payload.tail)

\* the payload as a JSON value, when it is one
Json == json
IsJson == Json.some

Count(kind) == Cardinality({i \in 1..Len(results) : results[i].kind = kind})

\* the records other than the RawCapture
Classified == 2..Len(results)

StateKeys == {"main_state", "secondary_state", "alerts", "rssi"}

\* the payload is a JSON object with at least one state key, any value
HasStateKey ==
  IsJson /\ Json.v.t = "obj" /\ DOMAIN Json.v.m \cap StateKeys # {}

\* the payload is a JSON object with none of the state keys
ObjectWithoutState ==
  IsJson /\ Json.v.t = "obj" /\ DOMAIN Json.v.m \cap StateKeys = {}

IsString(key) == key \in DOMAIN Json.v.m /\ Json.v.m[key].t = "str"

\* C1: parse_message returns no record exactly when the payload is not
\* valid UTF-8; otherwise the records hold exactly one RawCapture, it comes
\* first, its payload is the decoded text and its topic the topic of the
\* message, whichever path the classification takes.
C1_RawCaptureFirst ==
  Done =>
    /\ (Len(results) = 0) <=> ~ValidUtf8
    /\ ValidUtf8 =>
         /\ Count("SocketRead") = 1
         /\ results[1].kind = "SocketRead"
         /\ results[1].payload = payload
         /\ results[1].topic = topic

\* a text with characters outside ASCII has been captured and classified
C1_Witness ==
  /\ Done
  /\ Len(payload.tail) > 0
  /\ Len(results) = 2
  /\ results[1].payload = payload
  /\ results[2].kind = "DeviceLog"

\* C2: a JSON object with at least one of the keys main_state,
\* secondary_state, alerts, rssi yields exactly one DeviceState and neither
\* a SensorReading nor a DeviceLog, whatever else the object holds.
C2_StateExcludesOthers ==
  Done /\ HasStateKey =>
    /\ Count("DeviceState") = 1
    /\ Count("SensorReading") = 0
    /\ Count("DeviceLog") = 0

\* a state message that also has a numeric value, a sensors array and the
\* fields of a log has been classified
C2_Witness ==
  /\ Done
  /\ HasStateKey
  /\ {"value", "sensors", "level", "message"} \subseteq DOMAIN Json.v.m
  /\ Json.v.m["alerts"] = JNull
  /\ Count("DeviceState") = 1

\* the object has a numeric `value` and no other numeric member, no
\* `sensors` array, and strings at `level` and `message`
OnlyValueAndLog ==
  /\ ObjectWithoutState
  /\ {k \in DOMAIN Json.v.m : Json.v.m[k].t = "num"} = {"value"}
  /\ ~("sensors" \in DOMAIN Json.v.m /\ Json.v.m["sensors"].t = "arr")
  /\ IsString("level")
  /\ IsString("message")

\* C3 as stated: such an object yields exactly one SensorReading, at the
\* topic of the message, and exactly one DeviceLog.
C3_OneReadingOneLog ==
  Done /\ OnlyValueAndLog =>
    /\ Count("SensorReading") = 1
    /\ \A i \in Classified :
         results[i].kind = "SensorReading" => results[i].topic = topic
    /\ Count("DeviceLog") = 1

\* C3 as amended: such an object yields exactly two SensorReadings, the
\* first at the topic of the message and the second at <topic>/value, both
\* with the number at `value`, and exactly one DeviceLog after them.
C3_TwoReadingsOneLog ==
  Done /\ OnlyValueAndLog =>
    /\ Len(results) = 4
    /\ results[2].kind = "SensorReading"
    /\ results[2].topic = topic
    /\ results[2].value = Json.v.m["value"].n.f
    /\ results[3].kind = "SensorReading"
    /\ results[3].topic = topic \o "/value"
    /\ results[3].value = Json.v.m["value"].n.f
    /\ results[4].kind = "DeviceLog"

\* the message of the example has been classified
C3_Witness ==
  /\ Done
  /\ OnlyValueAndLog
  /\ topic = "t/dev00000001"
  /\ Json.v.m["level"] = JStr("INFO")
  /\ Count("SensorReading") = 2

NoDeviceFields ==
  IsJson /\ (Json.v.t = "obj" =>
               DOMAIN Json.v.m \cap {"device_id", "deviceId", "device"} = {})

\* C4: on topic telemetry/device42/temp, a JSON payload without the fields
\* device_id, deviceId, device yields records whose device_id is device42.
C4_TopicFallbackDevice42 ==
  Done /\ NoDeviceFields /\ topic = "telemetry/device42/temp" =>
    \A i \in Classified : results[i].device_id = "device42"

\* C5: the records other than the RawCapture that one JSON message yields
\* all carry the same timestamp.
C5_OneTimestamp ==
  Done /\ IsJson =>
    \A i, j \in Classified : results[i].timestamp = results[j].timestamp

\* the level the claim gives a plain text: the keywords are looked for in
\* the topic and the text without regard to case
ClaimedLevel ==
  LET t == to_lowercase(topic)
      x == to_lowercase(payload.ascii)
  IN  IF contains(t, "error") \/ contains(x, "error") THEN "ERROR"
      ELSE IF contains(t, "warn") \/ contains(x, "warn") THEN "WARN"
      ELSE IF contains(t, "debug") \/ contains(t, "diagnostics") THEN "DEBUG"
      ELSE "INFO"

\* C6: a text that is not JSON yields exactly one DeviceLog, whose level is
\* ERROR, WARN, DEBUG or INFO by the first keyword found, in the topic or
\* the text, without regard to case in either.
C6_PlainTextLevel ==
  Done /\ ValidUtf8 /\ ~Json.some =>
    /\ Len(results) = 2
    /\ results[2].kind = "DeviceLog"
    /\ results[2].level = ClaimedLevel

\* C7: a DeviceLog from a JSON payload has a level and a message that are
\* not empty.
C7_LogFieldsNotEmpty ==
  Done /\ IsJson =>
    \A i \in Classified :
      results[i].kind = "DeviceLog" =>
        results[i].level # "" /\ results[i].message # Str("")

\* the JSON value has no string device id: none of device_id, deviceId,
\* device is present, or the first of them that is present is not a string
NoStringDeviceId ==
  /\ IsJson
  /\ LET m == Json.v.m
         Has(k) == Json.v.t = "obj" /\ k \in DOMAIN m
     IN  IF Has("device_id") THEN m["device_id"].t # "str"
         ELSE IF Has("deviceId") THEN m["deviceId"].t # "str"
         ELSE IF Has("device") THEN m["device"].t # "str"
         ELSE TRUE

Segments == split(topic, "/")
Qualifies(seg) == starts_with(seg, "device") \/ Len(seg) >= 8
Qualifying == {i \in 1..Len(Segments) : Qualifies(Segments[i])}

\* C8 as stated: without a string device id in the JSON value, the device
\* id is the first segment of the topic that starts with `device` or has
\* at least 8 characters, and `unknown` exactly when no segment does, for
\* topics of any number of segments.
C8_FirstQualifyingSegment ==
  Done /\ NoStringDeviceId =>
    \A i \in Classified :
      /\ Qualifying # {} => results[i].device_id = Segments[Min(Qualifying)]
      /\ Qualifying = {} => results[i].device_id = "unknown"

\* C8 as amended: the same for topics of at least two segments; for a
\* topic of a single segment the device id is `unknown`, whether or not
\* the segment qualifies.
C8_FirstQualifyingOfSeveral ==
  Done /\ NoStringDeviceId =>
    \A i \in Classified :
      /\ Len(Segments) >= 2 /\ Qualifying # {} =>
           results[i].device_id = Segments[Min(Qualifying)]
      /\ Len(Segments) < 2 \/ Qualifying = {} =>
           results[i].device_id = "unknown"

\* a topic whose fourth segment also qualifies has given its third
\* segment to a record
C8_Witness ==
  /\ Done
  /\ NoStringDeviceId
  /\ Cardinality(Qualifying) = 2
  /\ Min(Qualifying) = 3
  /\ Len(results) >= 2
  /\ results[2].device_id = "devices"

\* the health field as the classifier normalises it: the JSON value a
\* string holds, or the value itself
Health == Json.v.m["health"]
HealthJson ==
  IF Health.t = "str" THEN from_str_ascii(Health.s) ELSE Some(Health)

\* the payload has state fields and a health field that is a string that
\* is not JSON, or a value without a member `general`
HealthFails ==
  /\ HasStateKey
  /\ "health" \in DOMAIN Json.v.m
  /\ \/ ~HealthJson.some
     \/ ~get(HealthJson.v, "general").some

\* C9: the records hold at most one DeviceHealth; it follows the one
\* DeviceState directly and has its device_id, topic and timestamp.  A
\* health field that fails to yield a record leaves exactly the RawCapture
\* and the DeviceState.
C9_HealthFollowsState ==
  Done =>
    /\ Count("DeviceHealth") <= 1
    /\ \A i \in 1..Len(results) :
         results[i].kind = "DeviceHealth" =>
           /\ i > 1
           /\ results[i - 1].kind = "DeviceState"
           /\ Count("DeviceState") = 1
           /\ results[i].device_id = results[i - 1].device_id
           /\ results[i].topic = results[i - 1].topic
           /\ results[i].timestamp = results[i - 1].timestamp
    /\ HealthFails =>
         /\ Len(results) = 2
         /\ results[1].kind = "SocketRead"
         /\ results[2].kind = "DeviceState"

\* a health string that is not JSON has left the DeviceState alone
C9_Witness ==
  /\ Done
  /\ HealthFails
  /\ Health = JStr("not json")
  /\ Len(results) = 2
  /\ results[2].kind = "DeviceState"

\* the int32 field of a record holds the integer of the JSON member
SameInteger(field, member) ==
  field.some => as_i64(member) = Some(I64FromI32(field.v))

\* C10: an int32 field of a DeviceState or DeviceHealth that is present
\* equals the integer of the JSON field it comes from.
C10_Int32FieldsExact ==
  Done /\ HasStateKey =>
    \A i \in Classified :
      /\ results[i].kind = "DeviceState" =>
           \A k \in {"main_state", "secondary_state", "rssi"} :
             results[i][k].some => SameInteger(results[i][k], Json.v.m[k])
      /\ results[i].kind = "DeviceHealth" =>
           LET general == HealthJson.v.m["general"]
               Field(f, k) ==
                 results[i][f].some =>
                   SameInteger(results[i][f], general.m[k])
           IN  /\ Field("unexpected_reset_counter", "unexpectedResetCounter")
               /\ Field("wifi_connect_counter", "wifiConnectCounter")
               /\ Field("cloud_connect_counter", "cloudConnectCounter")

====
